---- MODULE Spec2Model ----
(***************************************************************************)
(* CFPS Weather & NOTAM Fetcher (src/CFPS_WEATHER_NOTAM.PY).               *)
(*                                                                         *)
(* A Python str is a sequence of one-character strings.  A value decoded   *)
(* from JSON is a record [k, v]: k is the kind ("str", "num", "null",      *)
(* "bool", "arr", "obj") and v the payload (the characters of a str or of  *)
(* a number literal, the items of a list, the key -> value function of a   *)
(* dict).                                                                  *)
(***************************************************************************)
EXTENDS Integers, Sequences, FiniteSets, TLC

\* ------------------------------------------------------------------ bounds
MaxCodeLen == 2
MaxRows == 2
MaxRecords == 4
MaxNotams == 2

\* ----------------------------------------------------------------- strings
NL == "\n"
QUOTE == "\""

\* str.upper() on the letters the model's inputs are written with
UpperChar(c) ==
    CASE c = "c" -> "C"
      [] c = "y" -> "Y"
      [] c = "z" -> "Z"
      [] OTHER -> c

Upper(s) == [j \in 1..Len(s) |-> UpperChar(s[j])]

\* the characters str.strip() removes
IsSpace(c) == c \in {" ", "\t", NL, "\r"}

RECURSIVE LStrip(_)
LStrip(s) == IF s # <<>> /\ IsSpace(Head(s)) THEN LStrip(Tail(s)) ELSE s

RECURSIVE RStrip(_)
RStrip(s) ==
    IF s # <<>> /\ IsSpace(s[Len(s)]) THEN RStrip(SubSeq(s, 1, Len(s) - 1)) ELSE s

Strip(s) == RStrip(LStrip(s))

\* ------------------------------------------------------------- JSON values
JStr(s) == [k |-> "str", v |-> s]
JNum(s) == [k |-> "num", v |-> s]
JNull == [k |-> "null", v |-> <<>>]
JBool(b) == [k |-> "bool", v |-> IF b THEN <<"1">> ELSE <<>>]
JArr(items) == [k |-> "arr", v |-> items]
JObj(f) == [k |-> "obj", v |-> f]

IsStr(x) == x.k = "str"

\* ------------------------------------------------------------- json.loads
ParseFail == [ok |-> FALSE, val |-> JNull, pos |-> 0]
ParseOk(val, pos) == [ok |-> TRUE, val |-> val, pos |-> pos]

Digit == {"0", "1", "2", "3", "4", "5", "6", "7", "8", "9"}

RECURSIVE SkipWs(_, _)
SkipWs(s, p) == IF p <= Len(s) /\ IsSpace(s[p]) THEN SkipWs(s, p + 1) ELSE p

\* index of the closing quote of the string literal whose body starts at p,
\* 0 when it is unterminated or holds a control character
RECURSIVE StringEnd(_, _)
StringEnd(s, p) ==
    IF p > Len(s) THEN 0
    ELSE IF s[p] = QUOTE THEN p
    ELSE IF s[p] \in {NL, "\t", "\r"} THEN 0
    ELSE StringEnd(s, p + 1)

RECURSIVE DigitsEnd(_, _)
DigitsEnd(s, p) == IF p <= Len(s) /\ s[p] \in Digit THEN DigitsEnd(s, p + 1) ELSE p

\* first index after the integer literal at p (0 | [1-9][0-9]*), 0 when none
IntEnd(s, p) ==
    IF p > Len(s) \/ s[p] \notin Digit THEN 0
    ELSE IF s[p] = "0" THEN p + 1
    ELSE DigitsEnd(s, p)

\* e, or the first index after the fraction (. and digits) that starts at e
FracEnd(s, e) ==
    IF e # 0 /\ e + 1 <= Len(s) /\ s[e] = "." /\ s[e + 1] \in Digit
    THEN DigitsEnd(s, e + 1)
    ELSE e

\* e, or the first index after the exponent (e or E, a sign, digits) that
\* starts at e
ExpEnd(s, e) ==
    IF e = 0 \/ e > Len(s) \/ s[e] \notin {"e", "E"} THEN e
    ELSE IF e + 1 <= Len(s) /\ s[e + 1] \in Digit THEN DigitsEnd(s, e + 1)
    ELSE IF e + 2 <= Len(s) /\ s[e + 1] \in {"+", "-"} /\ s[e + 2] \in Digit
    THEN DigitsEnd(s, e + 2)
    ELSE e

\* first index after the number literal whose digits start at p, 0 when none
NumberEnd(s, p) == ExpEnd(s, FracEnd(s, IntEnd(s, p)))

StartsWith(s, p, lit) ==
    /\ p + Len(lit) - 1 <= Len(s)
    /\ SubSeq(s, p, p + Len(lit) - 1) = lit

RECURSIVE ParseValue(_, _)
RECURSIVE ParseMembers(_, _, _)
RECURSIVE ParseElems(_, _, _)

\* a string literal opened at p and closed at e
StringValue(s, p, e) ==
    IF e = 0 THEN ParseFail ELSE ParseOk(JStr(SubSeq(s, p + 1, e - 1)), e + 1)

\* a number literal from p to before e
NumberValue(s, p, e) ==
    IF e = 0 THEN ParseFail ELSE ParseOk(JNum(SubSeq(s, p, e - 1)), e)

\* after "{" and whitespace
ObjectAt(s, q) ==
    IF q <= Len(s) /\ s[q] = "}" THEN ParseOk(JObj(<<>>), q + 1)
    ELSE ParseMembers(s, q, <<>>)

\* after "[" and whitespace
ArrayAt(s, q) ==
    IF q <= Len(s) /\ s[q] = "]" THEN ParseOk(JArr(<<>>), q + 1)
    ELSE ParseElems(s, q, <<>>)

\* the value starting at p (whitespace already skipped)
ParseValue(s, p) ==
    IF p > Len(s) THEN ParseFail
    ELSE IF s[p] = QUOTE THEN StringValue(s, p, StringEnd(s, p + 1))
    ELSE IF s[p] = "{" THEN ObjectAt(s, SkipWs(s, p + 1))
    ELSE IF s[p] = "[" THEN ArrayAt(s, SkipWs(s, p + 1))
    ELSE IF StartsWith(s, p, <<"n", "u", "l", "l">>) THEN ParseOk(JNull, p + 4)
    ELSE IF StartsWith(s, p, <<"t", "r", "u", "e">>) THEN ParseOk(JBool(TRUE), p + 4)
    ELSE IF StartsWith(s, p, <<"f", "a", "l", "s", "e">>) THEN ParseOk(JBool(FALSE), p + 5)
    ELSE IF s[p] = "-" THEN NumberValue(s, p, NumberEnd(s, p + 1))
    ELSE NumberValue(s, p, NumberEnd(s, p))

\* after a member (r: whitespace skipped): "," and the next member, or "}"
MemberSep(s, r, members) ==
    IF r > Len(s) THEN ParseFail
    ELSE IF s[r] = "," THEN ParseMembers(s, SkipWs(s, r + 1), members)
    ELSE IF s[r] = "}" THEN ParseOk(JObj(members), r + 1)
    ELSE ParseFail

\* a member's value m was parsed: a later duplicate key replaces the earlier
\* one, as in a Python dict
MemberValue(s, key, m, members) ==
    IF ~m.ok THEN ParseFail
    ELSE MemberSep(s, SkipWs(s, m.pos), (key :> m.val) @@ members)

\* a member's key was read, q is where its ":" must be
MemberColon(s, key, q, members) ==
    IF q > Len(s) \/ s[q] # ":" THEN ParseFail
    ELSE MemberValue(s, key, ParseValue(s, SkipWs(s, q + 1)), members)

\* a member's key is the string literal opened at p and closed at e
MemberKey(s, p, e, members) ==
    IF e = 0 THEN ParseFail
    ELSE MemberColon(s, SubSeq(s, p + 1, e - 1), SkipWs(s, e + 1), members)

\* the members of an object from p on ("key": value, ...)
ParseMembers(s, p, members) ==
    IF p > Len(s) \/ s[p] # QUOTE THEN ParseFail
    ELSE MemberKey(s, p, StringEnd(s, p + 1), members)

\* after an element (r: whitespace skipped): "," and the next one, or "]"
ElemSep(s, r, elems) ==
    IF r > Len(s) THEN ParseFail
    ELSE IF s[r] = "," THEN ParseElems(s, SkipWs(s, r + 1), elems)
    ELSE IF s[r] = "]" THEN ParseOk(JArr(elems), r + 1)
    ELSE ParseFail

ElemValue(s, m, elems) ==
    IF ~m.ok THEN ParseFail ELSE ElemSep(s, SkipWs(s, m.pos), Append(elems, m.val))

\* the elements of an array from p on
ParseElems(s, p, elems) == ElemValue(s, ParseValue(s, p), elems)

\* the whole text must be one value, whitespace around it allowed
WholeText(s, m) == IF m.ok /\ SkipWs(s, m.pos) = Len(s) + 1 THEN m ELSE ParseFail

\* json.loads(x): [ok, val]; ok = FALSE is the exception (TypeError for a
\* non-str argument, JSONDecodeError for a malformed or trailing text).
\* The grammar is JSON's for texts without backslash escapes.
JsonLoads(x) ==
    IF ~IsStr(x) THEN ParseFail ELSE WholeText(x.v, ParseValue(x.v, SkipWs(x.v, 1)))

\* ------------------------------------------------- Python values and calls
Raise == [ok |-> FALSE, val |-> <<>>]
Return(x) == [ok |-> TRUE, val |-> x]

\* the str literals of the source
S_site == <<"s", "i", "t", "e">>
S_alpha == <<"a", "l", "p", "h", "a">>
S_notam_choice == <<"n", "o", "t", "a", "m", "_", "c", "h", "o", "i", "c", "e">>
S_default == <<"d", "e", "f", "a", "u", "l", "t">>
S_underscore == <<"_">>
S_token == <<"1", "7", "5", "6", "2", "4", "4", "2", "4", "0", "2", "9", "1">>
S_sigmet == <<"s", "i", "g", "m", "e", "t">>
S_airmet == <<"a", "i", "r", "m", "e", "t">>
S_notam == <<"n", "o", "t", "a", "m">>
S_metar == <<"m", "e", "t", "a", "r">>
S_taf == <<"t", "a", "f">>
S_pirep == <<"p", "i", "r", "e", "p">>
S_upperwind == <<"u", "p", "p", "e", "r", "w", "i", "n", "d">>
S_space_weather == <<"s", "p", "a", "c", "e", "_", "w", "e", "a", "t", "h", "e", "r">>
S_data == <<"d", "a", "t", "a">>
S_type == <<"t", "y", "p", "e">>
S_text == <<"t", "e", "x", "t">>
S_raw == <<"r", "a", "w">>

\* x[key] for a str key: KeyError when the dict lacks it, TypeError when x is
\* no dict
HasItem(x, key) == x.k = "obj" /\ key \in DOMAIN x.v
GetItem(x, key) == IF HasItem(x, key) THEN Return(x.v[key]) ELSE Raise

RECURSIVE SeqOf(_)
SeqOf(S) == IF S = {} THEN <<>> ELSE LET x == CHOOSE y \in S : TRUE IN <<x>> \o SeqOf(S \ {x})

\* what `for item in x` iterates over: the items of a list, the keys of a
\* dict, the characters of a str; TypeError for anything else
Iterate(x) ==
    CASE x.k = "arr" -> Return(x.v)
      [] x.k = "obj" -> Return(SeqOf({JStr(key) : key \in DOMAIN x.v}))
      [] x.k = "str" -> Return([j \in 1..Len(x.v) |-> JStr(<<x.v[j]>>)])
      [] OTHER -> Raise

\* a list or a dict cannot be a dict key (TypeError: unhashable type)
Hashable(x) == x.k \notin {"arr", "obj"}

\* sep.join(items): TypeError when an item is not a str
RECURSIVE Concat(_, _)
Concat(sep, strs) ==
    IF strs = <<>> THEN <<>>
    ELSE IF Len(strs) = 1 THEN strs[1]
    ELSE strs[1] \o sep \o Concat(sep, Tail(strs))

Join(sep, items) ==
    IF \A j \in 1..Len(items) : IsStr(items[j])
    THEN Return(Concat(sep, [j \in 1..Len(items) |-> items[j].v]))
    ELSE Raise

\* -------------------------------------------------------------- get_cfps_data
\* the params dict, in insertion order; list marks a list value
Params(icao) ==
    << [key |-> S_site, list |-> FALSE, value |-> icao],
       [key |-> S_alpha, list |-> TRUE,
        value |-> <<S_sigmet, S_airmet, S_notam, S_metar, S_taf, S_pirep,
                    S_upperwind, S_space_weather>>],
       [key |-> S_notam_choice, list |-> FALSE, value |-> S_default],
       [key |-> S_underscore, list |-> FALSE, value |-> S_token] >>

\* a list value sent as one comma-joined pair
ParamPairsJoined(p) ==
    << <<p.key, IF p.list THEN Concat(<<",">>, p.value) ELSE p.value>> >>

\* the pairs one parameter contributes
ParamPairs(p) ==
    IF p.list THEN [j \in 1..Len(p.value) |-> <<p.key, p.value[j]>>]
    ELSE << <<p.key, p.value>> >>

RECURSIVE QueryParamsFrom(_, _, _)
QueryParamsFrom(params, j, query_params) ==
    IF j > Len(params) THEN query_params
    ELSE QueryParamsFrom(params, j + 1, query_params \o ParamPairs(params[j]))

QueryParams(icao) == QueryParamsFrom(Params(icao), 1, <<>>)

\* response.raise_for_status(): HTTPError for a 4xx or 5xx status
RaisesForStatus(resp) == 400 <= resp.status /\ resp.status < 600

\* organized[typ] = [item]: the bucket is made anew for every item
AddToBucketAnew(organized, typ, item) == (typ :> <<item>>) @@ organized

\* organized[typ].append(item), the bucket created on the first item of typ
AddToBucket(organized, typ, item) ==
    LET made == IF typ \notin DOMAIN organized THEN (typ :> <<>>) @@ organized
                ELSE organized
    IN  [made EXCEPT ![typ] = Append(@, item)]

\* an item without a type is where the loop stops, and what was organized
\* so far is returned
RECURSIVE OrganizeFromPartial(_, _, _)
OrganizeFromPartial(items, j, organized) ==
    IF j > Len(items) THEN Return(organized)
    ELSE IF ~HasItem(items[j], S_type) THEN Return(organized)
    ELSE OrganizeFromPartial(items, j + 1,
                             AddToBucket(organized, items[j].v[S_type], items[j]))

RECURSIVE OrganizeFrom(_, _, _)
OrganizeFrom(items, j, organized) ==
    IF j > Len(items) THEN Return(organized)
    ELSE
        LET typ == GetItem(items[j], S_type)
        IN  IF ~typ.ok \/ ~Hashable(typ.val) THEN Raise
            ELSE OrganizeFrom(items, j + 1, AddToBucket(organized, typ.val, items[j]))

\* lines 35-41: the loop over what data["data"] iterates over
Organize(items) == IF items.ok THEN OrganizeFrom(items.val, 1, <<>>) ELSE Raise

\* the body of get_cfps_data after the request was sent: resp.sent = FALSE is
\* requests.get raising (no connection), resp.valid = FALSE a body that is
\* not JSON
GetCfpsData(resp) ==
    IF ~resp.sent \/ RaisesForStatus(resp) \/ ~resp.valid THEN Raise
    ELSE IF ~HasItem(resp.json, S_data) THEN Raise
    ELSE Organize(Iterate(resp.json.v[S_data]))

\* ------------------------------------------------------- the batch loop body
\* data[category]: an absent category is a KeyError, here a bucket whose
\* record cannot be read
BucketOrKeyError(data, category) ==
    IF JStr(category) \in DOMAIN data THEN data[JStr(category)] ELSE <<JNull>>

\* data.get(category, [])
Bucket(data, category) ==
    IF JStr(category) \in DOMAIN data THEN data[JStr(category)] ELSE <<>>

\* [m["text"] for m in bucket]
Texts(bucket) ==
    IF \A j \in 1..Len(bucket) : HasItem(bucket[j], S_text)
    THEN Return([j \in 1..Len(bucket) |-> bucket[j].v[S_text]])
    ELSE Raise

\* sep.join(items) of a list whose construction may have raised
JoinIfOk(sep, items) == IF items.ok THEN Join(sep, items.val) ELSE Raise

\* "\n".join([m["text"] for m in data.get(category, [])])
JoinedTexts(data, category) == JoinIfOk(<<NL>>, Texts(Bucket(data, category)))

\* the text is appended as it is, json.loads never tried
DisplayTextUndecoded(text, notam_json) == text

\* notam_json.get("raw", n["text"]): the text when the dict has no raw
DisplayTextOrText(text, notam_json) ==
    IF notam_json.ok /\ notam_json.val.k = "obj" /\ S_raw \in DOMAIN notam_json.val.v
    THEN notam_json.val.v[S_raw]
    ELSE text

\* lines 86-89 once n["text"] is read: notam_json.get("raw", "") when the
\* text decodes to a dict, and the text itself when json.loads raises or
\* the decoded value has no get (AttributeError)
DisplayText(text, notam_json) ==
    IF notam_json.ok /\ notam_json.val.k = "obj"
    THEN IF S_raw \in DOMAIN notam_json.val.v THEN notam_json.val.v[S_raw] ELSE JStr(<<>>)
    ELSE text

\* what one NOTAM appends to notams; a record without text raises KeyError
\* in the try block and again in the except block
NotamDisplay(n) ==
    IF ~HasItem(n, S_text) THEN Raise
    ELSE Return(DisplayText(n.v[S_text], JsonLoads(n.v[S_text])))

RECURSIVE NotamsFrom(_, _, _)

AppendNotam(bucket, j, notams, display) ==
    IF display.ok THEN NotamsFrom(bucket, j + 1, Append(notams, display.val)) ELSE Raise

\* lines 83-89
NotamsFrom(bucket, j, notams) ==
    IF j > Len(bucket) THEN Return(notams)
    ELSE AppendNotam(bucket, j, notams, NotamDisplay(bucket[j]))

\* lines 83-90
NotamText(data) == JoinIfOk(<<NL, NL>>, NotamsFrom(Bucket(data, S_notam), 1, <<>>))

\* lines 92-97
MakeRow(icao, metar, taf, notam_text) ==
    IF metar.ok /\ taf.ok /\ notam_text.ok
    THEN Return([ICAO |-> icao, METAR |-> metar.val, TAF |-> taf.val,
                 NOTAMs |-> notam_text.val])
    ELSE Raise

\* lines 81-97: the row of one code, or the exception the loop's except gets
ResultRow(icao, data) ==
    MakeRow(icao, JoinedTexts(data, S_metar), JoinedTexts(data, S_taf), NotamText(data))

\* ----------------------------------------------------- the uploaded table
\* a blank cell of the ICAO column (NaN)
NaN == [k |-> "nan", v |-> <<>>]

NoFile == [name |-> "", format |-> "none", columns |-> {}, ICAO |-> <<>>]

\* uploaded_file.name.endswith(".csv")
EndsWithCsv(name) == name \in {"codes.csv"}

\* pd.read_csv / pd.read_excel: raises on a content of another format
Readable(file) ==
    IF EndsWithCsv(file.name) THEN file.format = "csv" ELSE file.format = "excel"

\* df["ICAO"]: a column of blank cells only is read as float64, any other
\* (strings, or no row at all) as object
Column(cells) ==
    [dtype |-> IF cells # <<>> /\ \A j \in 1..Len(cells) : cells[j] = NaN
               THEN "float64" ELSE "object",
     values |-> cells]

IsValue(cell) == cell # NaN

\* .dropna()
DropNa(series) == [series EXCEPT !.values = SelectSeq(@, IsValue)]

\* .str.upper().tolist(): the .str accessor raises AttributeError on a
\* column that is not of strings
StrUpper(series) ==
    IF series.dtype # "object" THEN Raise
    ELSE Return([j \in 1..Len(series.values) |-> Upper(series.values[j].v)])

\* lines 61-72: the codes the upload adds and the st.error messages
Extended(upper) ==
    IF upper.ok THEN [codes |-> upper.val, errors |-> <<>>]
    ELSE [codes |-> <<>>, errors |-> <<"Error reading file">>]

Uploaded(file) ==
    IF file = NoFile THEN [codes |-> <<>>, errors |-> <<>>]
    ELSE IF ~Readable(file) THEN [codes |-> <<>>, errors |-> <<"Error reading file">>]
    ELSE IF "ICAO" \in file.columns THEN Extended(StrUpper(DropNa(Column(file.ICAO))))
    ELSE [codes |-> <<>>, errors |-> <<"Uploaded file must have a column named 'ICAO'">>]

\* line 46: st.text_input(...).upper().strip()
IcaoInput(text) == Strip(Upper(text))

\* lines 56-72
Entered(icao) == IF icao # <<>> THEN <<icao>> ELSE <<>>

\* list(dict.fromkeys(codes)): every code once, in order of first occurrence
RECURSIVE Unique(_)
Unique(codes) ==
    IF codes = <<>> THEN <<>>
    ELSE LET front == Unique(SubSeq(codes, 1, Len(codes) - 1))
             last == codes[Len(codes)]
         IN  IF \E j \in 1..Len(front) : front[j] = last THEN front
             ELSE Append(front, last)

\* the list with its duplicates removed
IcaoListUnique(text, file) == Unique(Entered(IcaoInput(text)) \o Uploaded(file).codes)

IcaoList(text, file) == Entered(IcaoInput(text)) \o Uploaded(file).codes

\* ------------------------------------------------------------------- state
VARIABLES
    pc,             \* "start", "fetch" (top of the loop), "extract", "done"
    typed,          \* the text of the text_input widget
    uploaded_file,  \* the uploaded file, NoFile when none
    icao_input,
    icao_list,
    errors,         \* the st.error messages, in order
    i,              \* index in icao_list of the code the loop is at
    query_log,      \* the query_params of every request sent, in order
    response,       \* what the last request got
    data,           \* what get_cfps_data last returned
    results,
    warnings,       \* the codes of the st.warning messages, in order
    outcomes,       \* per finished iteration: "row" or "warning"
    df_results      \* the rendered table

vars == <<pc, typed, uploaded_file, icao_input, icao_list, errors, i, query_log,
          response, data, results, warnings, outcomes, df_results>>

NoResponse == [sent |-> FALSE, status |-> 0, valid |-> FALSE, json |-> JNull]

Init ==
    /\ pc = "start"
    /\ typed = <<>>
    /\ uploaded_file = NoFile
    /\ icao_input = <<>>
    /\ icao_list = <<>>
    /\ errors = <<>>
    /\ i = 1
    /\ query_log = <<>>
    /\ response = NoResponse
    /\ data = <<>>
    /\ results = <<>>
    /\ warnings = <<>>
    /\ outcomes = <<>>
    /\ df_results = <<>>

\* lines 46-75: the inputs are read and the list of codes built; nothing
\* more happens when the list is empty
DetermineIcaoList(texts, files) ==
    /\ pc = "start"
    /\ \E text \in texts, file \in files :
        /\ typed' = text
        /\ uploaded_file' = file
        /\ icao_input' = IcaoInput(text)
        /\ icao_list' = IcaoList(text, file)
        /\ errors' = errors \o Uploaded(file).errors
        /\ pc' = IF IcaoList(text, file) # <<>> THEN "fetch" ELSE "done"
    /\ UNCHANGED <<i, query_log, response, data, results, warnings, outcomes, df_results>>

\* the exception is not caught and ends the run
FetchedAborts(organized) ==
    IF organized.ok
    THEN /\ data' = organized.val
         /\ pc' = "extract"
         /\ UNCHANGED <<i, warnings, outcomes>>
    ELSE /\ pc' = "done"
         /\ UNCHANGED <<i, warnings, outcomes, data>>

\* lines 80 and 98-99: get_cfps_data returned organized, or raised
Fetched(organized) ==
    IF organized.ok
    THEN /\ data' = organized.val
         /\ pc' = "extract"
         /\ UNCHANGED <<i, warnings, outcomes>>
    ELSE /\ warnings' = Append(warnings, icao_list[i])
         /\ outcomes' = Append(outcomes, "warning")
         /\ i' = i + 1
         /\ UNCHANGED <<pc, data>>

\* lines 78-80 and 98-99: get_cfps_data(icao); an exception ends the
\* iteration with a warning
Fetch(responses) ==
    /\ pc = "fetch"
    /\ i <= Len(icao_list)
    /\ \E resp \in responses :
        /\ query_log' = Append(query_log, QueryParams(icao_list[i]))
        /\ response' = resp
        /\ Fetched(GetCfpsData(resp))
    /\ UNCHANGED <<typed, uploaded_file, icao_input, icao_list, errors, results, df_results>>

\* results.insert(0, row) for results.append(row)
ExtractedInFront(row) ==
    IF row.ok
    THEN /\ results' = <<row.val>> \o results
         /\ outcomes' = Append(outcomes, "row")
         /\ UNCHANGED warnings
    ELSE /\ warnings' = Append(warnings, icao_list[i])
         /\ outcomes' = Append(outcomes, "warning")
         /\ UNCHANGED results

\* lines 92-99: the row is appended, or the exception reported
Extracted(row) ==
    IF row.ok
    THEN /\ results' = Append(results, row.val)
         /\ outcomes' = Append(outcomes, "row")
         /\ UNCHANGED warnings
    ELSE /\ warnings' = Append(warnings, icao_list[i])
         /\ outcomes' = Append(outcomes, "warning")
         /\ UNCHANGED results

\* lines 81-99: the row is built and appended; an exception ends the
\* iteration with a warning
Extract ==
    /\ pc = "extract"
    /\ Extracted(ResultRow(icao_list[i], data))
    /\ i' = i + 1
    /\ pc' = "fetch"
    /\ UNCHANGED <<typed, uploaded_file, icao_input, icao_list, errors, query_log,
                   response, data, df_results>>

\* lines 101-117: the loop is over, the table is rendered
Render ==
    /\ pc = "fetch"
    /\ i > Len(icao_list)
    /\ df_results' = results
    /\ pc' = "done"
    /\ UNCHANGED <<typed, uploaded_file, icao_input, icao_list, errors, i, query_log,
                   response, data, results, warnings, outcomes>>

\* ------------------------------------------------------------------ inputs
RECURSIVE SeqsUpTo(_, _)
SeqsUpTo(S, n) ==
    IF n = 0 THEN {<<>>}
    ELSE {<<>>} \cup {<<x>> \o q : x \in S, q \in SeqsUpTo(S, n - 1)}

\* uploaded files: a CSV table with an ICAO column, one without, a file
\* read_csv cannot read, an Excel table, a CSV content named .xlsx
CsvFile(cells) ==
    [name |-> "codes.csv", format |-> "csv", columns |-> {"ICAO", "Name"}, ICAO |-> cells]
CsvNoColumn == [name |-> "codes.csv", format |-> "csv", columns |-> {"Name"}, ICAO |-> <<>>]
CsvGarbage == [name |-> "codes.csv", format |-> "garbage", columns |-> {}, ICAO |-> <<>>]
ExcelFile(cells) ==
    [name |-> "codes.xlsx", format |-> "excel", columns |-> {"ICAO"}, ICAO |-> cells]
ExcelMisnamed == [name |-> "codes.xlsx", format |-> "csv", columns |-> {"ICAO"}, ICAO |-> <<>>]

\* responses of the API
Report(type, text) == JObj((S_type :> JStr(type)) @@ (S_text :> text))
Body(items) == JObj(S_data :> JArr(items))
Http(status, json) == [sent |-> TRUE, status |-> status, valid |-> TRUE, json |-> json]
NotJson(status) == [sent |-> TRUE, status |-> status, valid |-> FALSE, json |-> JNull]

C_cy == <<"c", "y">>
C_ZZ == <<"Z", "Z">>
M1 == JStr(<<"M", "1">>)
M2 == JStr(<<"M", "2">>)
T1 == JStr(<<"T", "1">>)

\* NOTAM texts: JSON objects with a raw string, texts that are not JSON,
\* JSON without a raw field, JSON objects whose raw is not a string
N_example ==
    JStr(<<"{", QUOTE, "r", "a", "w", QUOTE, ":", QUOTE, "A", "1", "2", "3", "4", "/", "2", "3", " ",
         "R", "W", "Y", " ", "C", "L", "O", "S", "E", "D", QUOTE, "}">>)
N_spaced ==
    JStr(<<" ", "{", " ", QUOTE, "r", "a", "w", QUOTE, " ", ":", " ", QUOTE, "B", "2", QUOTE, " ",
         "}", " ">>)
N_raw_last ==
    JStr(<<"{", QUOTE, "i", "d", QUOTE, ":", "7", ",", QUOTE, "r", "a", "w", QUOTE, ":", QUOTE, "C",
         "3", QUOTE, "}">>)
N_raw_empty == JStr(<<"{", QUOTE, "r", "a", "w", QUOTE, ":", QUOTE, QUOTE, "}">>)
N_plain == JStr(<<"p", "l", "a", "i", "n", " ", "t", "e", "x", "t">>)
N_truncated == JStr(<<"{", QUOTE, "r", "a", "w", QUOTE, ":", QUOTE, "A", "1", QUOTE>>)
N_trailing == JStr(<<"{", QUOTE, "r", "a", "w", QUOTE, ":", QUOTE, "A", "1", QUOTE, "}", " ", "x">>)
N_no_raw == JStr(<<"{", QUOTE, "i", "d", QUOTE, ":", "7", "}">>)
N_empty_obj == JStr(<<"{", "}">>)
N_number == JStr(<<"5">>)
N_array == JStr(<<"[", QUOTE, "r", "a", "w", QUOTE, "]">>)
N_null == JStr(<<"n", "u", "l", "l">>)
N_string == JStr(<<QUOTE, "r", "a", "w", QUOTE>>)
N_raw_number == JStr(<<"{", QUOTE, "r", "a", "w", QUOTE, ":", "5", "}">>)
N_raw_null == JStr(<<"{", QUOTE, "r", "a", "w", QUOTE, ":", "n", "u", "l", "l", "}">>)

\* -------------------------------------------------------------- the batch
\* a typed code and/or a table of codes, and per request one of the ways a
\* request ends
BatchTexts == {<<>>, C_cy}
BatchFiles == {NoFile} \cup {CsvFile(cells) : cells \in SeqsUpTo({JStr(C_cy), JStr(C_ZZ)}, MaxRows)}
BatchResponses ==
    { NoResponse,
      Http(404, Body(<<>>)),
      NotJson(503),
      NotJson(200),
      Http(200, JObj(S_data :> JNull)),
      Http(200, JObj(<<>>)),
      Http(200, JArr(<<>>)),
      Http(200, Body(<<Report(S_metar, M1), JObj(S_text :> M2)>>)),
      Http(200, Body(<<>>)),
      Http(200, Body(<<Report(S_metar, M1), Report(S_notam, N_example)>>)),
      Http(200, Body(<<Report(S_taf, T1)>>)),
      Http(200, Body(<<JObj(S_type :> JStr(S_metar))>>)),
      Http(200, Body(<<Report(S_notam, N_raw_number)>>)) }

Next ==
    \/ DetermineIcaoList(BatchTexts, BatchFiles)
    \/ Fetch(BatchResponses)
    \/ Extract
    \/ Render

Spec == Init /\ [][Next]_vars

\* ------------------------------------------- get_cfps_data on one response
\* one code; the response is any list of up to MaxRecords reports, or a list
\* with an element that is not a report
OrganizeReports ==
    {Report(type, text) : type \in {S_metar, S_taf, S_sigmet}, text \in {M1, M2}}
OrganizeResponses ==
    {Http(200, Body(items)) : items \in SeqsUpTo(OrganizeReports, MaxRecords)}
        \cup {Http(200, Body(<<Report(S_taf, T1), JObj(S_text :> M2)>>)),
              Http(200, Body(<<Report(S_taf, T1), M1>>))}

NextOrganize ==
    \/ DetermineIcaoList({C_cy}, {NoFile})
    \/ Fetch(OrganizeResponses)
    \/ Extract
    \/ Render

SpecOrganize == Init /\ [][NextOrganize]_vars

\* ------------------------------------------------ the row of one response
\* one code; the response is any list of up to MaxNotams reports: METAR and
\* TAF reports, a METAR without text, NOTAMs of every kind of text
NotamTexts ==
    { N_example, N_spaced, N_raw_last, N_raw_empty, N_plain, N_truncated, N_trailing,
      N_no_raw, N_empty_obj, N_number, N_array, N_null, N_string, N_raw_number, N_raw_null }
NotamReports ==
    {Report(S_notam, text) : text \in NotamTexts}
        \cup {Report(S_metar, M1), Report(S_metar, M2), Report(S_taf, T1),
              JObj(S_type :> JStr(S_metar))}
NotamResponses == {Http(200, Body(items)) : items \in SeqsUpTo(NotamReports, MaxNotams)}

NextNotam ==
    \/ DetermineIcaoList({C_cy}, {NoFile})
    \/ Fetch(NotamResponses)
    \/ Extract
    \/ Render

SpecNotam == Init /\ [][NextNotam]_vars

\* ------------------------------------------------------ the list of codes
\* any typed text of up to MaxCodeLen characters, any table of up to MaxRows
\* cells; every request is answered with no report
InputTexts == SeqsUpTo({"c", "C", " "}, MaxCodeLen)
InputCells == {NaN, JStr(<<"c">>), JStr(<<" ", "Z">>)}
InputFiles ==
    {NoFile, CsvNoColumn, CsvGarbage, ExcelMisnamed, ExcelFile(<<JStr(C_cy)>>)}
        \cup {CsvFile(cells) : cells \in SeqsUpTo(InputCells, MaxRows)}

NextInput ==
    \/ DetermineIcaoList(InputTexts, InputFiles)
    \/ Fetch({Http(200, Body(<<>>))})
    \/ Extract
    \/ Render

SpecInput == Init /\ [][NextInput]_vars

\* ================================================================= claims
\* the codes of list[1..n] whose iteration ended with the outcome tag
RECURSIVE Picked(_, _, _, _)
Picked(list, outs, tag, n) ==
    IF n = 0 THEN <<>>
    ELSE Picked(list, outs, tag, n - 1) \o (IF outs[n] = tag THEN <<list[n]>> ELSE <<>>)

\* the ways a response makes get_cfps_data fail, read off the response
NoConnection(resp) == ~resp.sent
HttpFailure(resp) == resp.sent /\ resp.status >= 400
InvalidJson(resp) == resp.sent /\ resp.status < 400 /\ ~resp.valid
Decoded(resp) == resp.sent /\ resp.status < 400 /\ resp.valid
DataMissing(resp) ==
    Decoded(resp) /\ ~(resp.json.k = "obj" /\ S_data \in DOMAIN resp.json.v)
IsReport(x) == x.k = "obj" /\ S_type \in DOMAIN x.v
HasDataList(resp) ==
    Decoded(resp) /\ resp.json.k = "obj" /\ S_data \in DOMAIN resp.json.v
        /\ resp.json.v[S_data].k = "arr"
DataOf(resp) == resp.json.v[S_data].v
ElementLacksType(resp) ==
    HasDataList(resp) /\ \E j \in 1..Len(DataOf(resp)) : ~IsReport(DataOf(resp)[j])
DataNotIterable(resp) ==
    Decoded(resp) /\ resp.json.k = "obj" /\ S_data \in DOMAIN resp.json.v
        /\ resp.json.v[S_data].k \in {"null", "num", "bool"}
FailsAsAWhole(resp) ==
    HttpFailure(resp) \/ InvalidJson(resp) \/ DataMissing(resp) \/ ElementLacksType(resp)
WellFormed(resp) ==
    HasDataList(resp) /\ \A j \in 1..Len(DataOf(resp)) : IsReport(DataOf(resp)[j])

\* an iteration has just ended, the response and data are those it used
JustFinished == pc = "fetch" /\ i > 1 /\ Len(query_log) = i - 1
JustAppended == JustFinished /\ outcomes[i - 1] = "row"
LastRow == results[Len(results)]

\* C1: a failure of get_cfps_data for one code never aborts the batch: the
\* codes are fetched once each, one after another in input order, up to the
\* last one, and each failing code gets exactly one warning and no row.
C1_FailureNeverAbortsBatch ==
    /\ Len(query_log) = (IF pc = "extract" THEN i ELSE i - 1)
    /\ \A j \in 1..Len(query_log) : query_log[j][1] = <<S_site, icao_list[j]>>
    /\ pc = "done" => Len(query_log) = Len(icao_list)
    /\ Len(outcomes) = i - 1
    /\ warnings = Picked(icao_list, outcomes, "warning", i - 1)
    /\ Len(results) = Len(Picked(icao_list, outcomes, "row", i - 1))
    /\ (/\ JustFinished
        /\ \/ NoConnection(response)
           \/ FailsAsAWhole(response)
           \/ DataNotIterable(response))
           => outcomes[i - 1] = "warning"

C1_Witness ==
    /\ pc = "done"
    /\ Len(icao_list) = 3
    /\ outcomes = <<"warning", "row", "warning">>
    /\ HttpFailure(response)
    /\ Len(query_log) = 3

\* C2: the ICAO values of the result rows are the codes of the input list
\* whose fetch and extraction succeeded, in input order, one row per
\* successful occurrence, and the finished loop has gone through every code.
C2_RowsAreTheSuccessfulCodesInOrder ==
    /\ [j \in 1..Len(results) |-> results[j].ICAO]
           = Picked(icao_list, outcomes, "row", i - 1)
    /\ (pc = "done" /\ icao_list # <<>>)
           => (df_results = results /\ Len(outcomes) = Len(icao_list))
    /\ JustFinished
           => (outcomes[i - 1] = "row"
                   <=> (GetCfpsData(response).ok
                            /\ ResultRow(<<>>, GetCfpsData(response).val).ok))

C2_Witness ==
    /\ pc = "done"
    /\ icao_list = <<Upper(C_cy), C_ZZ, Upper(C_cy)>>
    /\ outcomes = <<"row", "row", "row">>
    /\ [j \in 1..Len(df_results) |-> df_results[j].ICAO] = icao_list

\* the sum of the lengths of the buckets of map named in keys
RECURSIVE TotalLen(_, _)
TotalLen(map, keys) ==
    IF keys = {} THEN 0
    ELSE LET key == CHOOSE x \in keys : TRUE
         IN  Len(map[key]) + TotalLen(map, keys \ {key})

TypeOf(item) == item.v[S_type]

\* map groups items by type: its keys are the types that occur, each bucket
\* holds the items of its type in order, and the buckets hold Len(items)
\* items in all
IsGroupBy(map, items) ==
    /\ DOMAIN map = {TypeOf(items[j]) : j \in 1..Len(items)}
    /\ \A type \in DOMAIN map :
           /\ map[type] # <<>>
           /\ map[type] = SelectSeq(items, LAMBDA item : TypeOf(item) = type)
    /\ TotalLen(map, DOMAIN map) = Len(items)

\* C3: for every well-formed response get_cfps_data returns, and what it
\* returns is the group-by of the data list: one bucket per type that
\* occurs, never an empty one, each holding the records of its type in
\* response order, every record in exactly one bucket exactly once.
C3_OrganizedIsGroupByType ==
    [][(query_log' # query_log /\ WellFormed(response'))
           => (pc' = "extract" /\ IsGroupBy(data', DataOf(response')))]_vars

C3_Witness ==
    /\ pc = "extract"
    /\ WellFormed(response)
    /\ Len(DataOf(response)) = 4
    /\ TypeOf(DataOf(response)[1]) = TypeOf(DataOf(response)[3])
    /\ TypeOf(DataOf(response)[2]) = TypeOf(DataOf(response)[4])
    /\ DataOf(response)[1] # DataOf(response)[3]
    /\ DOMAIN data = {JStr(S_metar), JStr(S_taf)}
    /\ data[JStr(S_metar)] = <<DataOf(response)[1], DataOf(response)[3]>>

\* C4: get_cfps_data fails as a whole, returning no mapping, when the HTTP
\* status indicates failure, the body is not valid JSON, the data key is
\* missing or an element of the list lacks a type: the request that gets
\* such a response leaves data as it was, and the loop records the code as
\* failed (one warning, no row) and goes on to the next code.
C4_GetFailsAsAWhole ==
    [][(query_log' # query_log /\ FailsAsAWhole(response'))
           => /\ data' = data
              /\ pc' = "fetch"
              /\ i' = i + 1
              /\ warnings' = Append(warnings, icao_list[i])
              /\ outcomes' = Append(outcomes, "warning")
              /\ results' = results]_vars

C4_Witness ==
    /\ JustFinished
    /\ ElementLacksType(response)
    /\ IsReport(DataOf(response)[1])
    /\ outcomes[i - 1] = "warning"
    /\ warnings[Len(warnings)] = icao_list[i - 1]
    /\ results = <<>>
    /\ DOMAIN data = {}

\* the eleven pairs of the request for code
ExpectedQuery(code) ==
    << <<S_site, code>>,
       <<S_alpha, S_sigmet>>, <<S_alpha, S_airmet>>, <<S_alpha, S_notam>>,
       <<S_alpha, S_metar>>, <<S_alpha, S_taf>>, <<S_alpha, S_pirep>>,
       <<S_alpha, S_upperwind>>, <<S_alpha, S_space_weather>>,
       <<S_notam_choice, S_default>>,
       <<S_underscore, S_token>> >>

\* C9: the query of every request is (site, code), the eight alpha pairs in
\* the order of the source, one pair per category, then (notam_choice,
\* default) and (_, token): eleven pairs, the code passed through unchanged.
C9_QueryIsElevenPairs ==
    \A j \in 1..Len(query_log) :
        /\ Len(query_log[j]) = 11
        /\ query_log[j] = ExpectedQuery(icao_list[j])

C9_Witness ==
    /\ Len(query_log) = 2
    /\ query_log[1][1] = <<S_site, <<"C", "Y">> >>
    /\ query_log[2][1] = <<S_site, <<"Z", "Z">> >>
    /\ query_log[2][5] = <<S_alpha, S_metar>>

\* the records of a category in data, none when it is absent
Absent(category) == JStr(category) \notin DOMAIN data
Records(category) == IF Absent(category) THEN <<>> ELSE data[JStr(category)]

\* the text fields of the records of a bucket
TextsOf(bucket) == [j \in 1..Len(bucket) |-> bucket[j].v[S_text]]
CharsOf(strs) == [j \in 1..Len(strs) |-> strs[j].v]

\* the kinds of NOTAM text, and the raw string of those that have one
WithRawString == {N_example, N_spaced, N_raw_last, N_raw_empty}
NotJsonTexts == {N_plain, N_truncated, N_trailing}
ObjectsWithoutRaw == {N_no_raw, N_empty_obj}
NotObjects == {N_number, N_array, N_null, N_string}
RawString(text) ==
    CASE text = N_example ->
             <<"A", "1", "2", "3", "4", "/", "2", "3", " ", "R", "W", "Y", " ",
               "C", "L", "O", "S", "E", "D">>
      [] text = N_spaced -> <<"B", "2">>
      [] text = N_raw_last -> <<"C", "3">>
      [] text = N_raw_empty -> <<>>

AllTextsIn(bucket, kinds) ==
    \A j \in 1..Len(bucket) : HasItem(bucket[j], S_text) /\ bucket[j].v[S_text] \in kinds

\* C5: in a row, METAR and TAF are the texts of their buckets joined by one
\* newline, and NOTAMs is the display texts of the NOTAM bucket, in order,
\* joined by two newlines, where the display text of a JSON object with a
\* raw field is that field's value and the display text of a text that is
\* not JSON is the text itself.
C5_DisplayTextsAndJoins ==
    JustAppended =>
        /\ LastRow.METAR = Concat(<<NL>>, CharsOf(TextsOf(Records(S_metar))))
        /\ LastRow.TAF = Concat(<<NL>>, CharsOf(TextsOf(Records(S_taf))))
        /\ AllTextsIn(Records(S_notam), WithRawString \cup NotJsonTexts)
               => LastRow.NOTAMs =
                      Concat(<<NL, NL>>,
                             [j \in 1..Len(Records(S_notam)) |->
                                 LET text == Records(S_notam)[j].v[S_text]
                                 IN  IF text \in WithRawString THEN RawString(text)
                                     ELSE text.v])

C5_Witness ==
    /\ JustAppended
    /\ TextsOf(Records(S_notam)) = <<N_example, N_plain>>
    /\ LastRow.NOTAMs =
           <<"A", "1", "2", "3", "4", "/", "2", "3", " ", "R", "W", "Y", " ",
             "C", "L", "O", "S", "E", "D", NL, NL,
             "p", "l", "a", "i", "n", " ", "t", "e", "x", "t">>

\* C6 as claimed: the display text of a NOTAM whose text decodes as JSON
\* without a raw field (an object without the key, or no object at all) is
\* the original text.
C6_Original ==
    (JustAppended /\ AllTextsIn(Records(S_notam), ObjectsWithoutRaw \cup NotObjects))
        => LastRow.NOTAMs = Concat(<<NL, NL>>, CharsOf(TextsOf(Records(S_notam))))

\* C6 amended: the display text of a NOTAM whose text decodes to a JSON
\* value that is not an object is the original text, and that of a NOTAM
\* whose text decodes to a JSON object without a raw field is the empty
\* string.
C6_NoRawFieldDisplay ==
    (JustAppended /\ AllTextsIn(Records(S_notam), ObjectsWithoutRaw \cup NotObjects))
        => LastRow.NOTAMs =
               Concat(<<NL, NL>>,
                      [j \in 1..Len(Records(S_notam)) |->
                          LET text == Records(S_notam)[j].v[S_text]
                          IN  IF text \in ObjectsWithoutRaw THEN <<>> ELSE text.v])

C6_Witness ==
    /\ JustAppended
    /\ TextsOf(Records(S_notam)) = <<N_no_raw, N_array>>
    /\ LastRow.NOTAMs = <<NL, NL, "[", QUOTE, "r", "a", "w", QUOTE, "]">>

\* the METAR and TAF records all have a str text
PlainTexts(bucket) ==
    \A j \in 1..Len(bucket) : HasItem(bucket[j], S_text) /\ IsStr(bucket[j].v[S_text])

\* C7 as claimed: whatever the str texts of the NOTAM records of a fetched
\* code hold, NOTAM processing raises nothing: the row is appended and no
\* warning is recorded.
C7_NotamNeverSurfaces ==
    (/\ JustFinished
     /\ WellFormed(response)
     /\ PlainTexts(Records(S_metar))
     /\ PlainTexts(Records(S_taf))
     /\ PlainTexts(Records(S_notam)))
        => (outcomes[i - 1] = "row" /\ warnings = <<>>)

\* C8: a category absent from the mapping of a fetched code is never an
\* error and gives the empty string: a row has the empty string in the
\* column of every absent category, and when what is present can be
\* processed (METAR and TAF records with a str text, NOTAMs with a raw
\* string or a text that is not JSON) the row is appended and no warning
\* recorded, whichever categories are absent, all three included.
C8_AbsentCategoryIsEmpty ==
    /\ JustAppended =>
           /\ Absent(S_metar) => LastRow.METAR = <<>>
           /\ Absent(S_taf) => LastRow.TAF = <<>>
           /\ Absent(S_notam) => LastRow.NOTAMs = <<>>
    /\ (/\ JustFinished
        /\ WellFormed(response)
        /\ PlainTexts(Records(S_metar))
        /\ PlainTexts(Records(S_taf))
        /\ AllTextsIn(Records(S_notam), WithRawString \cup NotJsonTexts))
           => (outcomes[i - 1] = "row" /\ warnings = <<>>)

C8_Witness ==
    /\ JustAppended
    /\ DataOf(response) = <<>>
    /\ Absent(S_metar) /\ Absent(S_taf) /\ Absent(S_notam)
    /\ LastRow = [ICAO |-> <<"C", "Y">>, METAR |-> <<>>, TAF |-> <<>>, NOTAMs |-> <<>>]
    /\ warnings = <<>>

\* what the claim says of the upload: the cells of the ICAO column that
\* are not blank, upper-cased, in table order; nothing for a file that
\* cannot be read or has no ICAO column
IsCode(cell) == cell.k = "str"
UnreadableFiles == {CsvGarbage, ExcelMisnamed}
FromTable(file) ==
    IF file \notin UnreadableFiles /\ "ICAO" \in file.columns
    THEN [j \in 1..Len(SelectSeq(file.ICAO, IsCode)) |->
             Upper(SelectSeq(file.ICAO, IsCode)[j].v)]
    ELSE <<>>

\* code is text without its leading and trailing whitespace
IsStripOf(code, text) ==
    \E a, b \in 0..Len(text) :
        /\ a + b <= Len(text)
        /\ code = SubSeq(text, a + 1, Len(text) - b)
        /\ \A j \in 1..a : IsSpace(text[j])
        /\ \A j \in (Len(text) - b + 1)..Len(text) : IsSpace(text[j])
        /\ code # <<>> => (~IsSpace(code[1]) /\ ~IsSpace(code[Len(code)]))

\* one error and nothing from the upload when it cannot be read or has no
\* ICAO column, and the entered code is fetched first all the same
DegradesToTheEnteredCode(code) ==
    /\ (uploaded_file \in UnreadableFiles \cup {CsvNoColumn})
           => (Len(errors) = 1 /\ icao_list = (IF code # <<>> THEN <<code>> ELSE <<>>))
    /\ (pc = "done" /\ code # <<>>)
           => (query_log[1][1] = <<S_site, code>> /\ results[1].ICAO = code)

\* C10 as claimed: the list is the entered text, upper-cased, if it is not
\* empty, followed by the upper-cased non-blank cells of the ICAO column,
\* duplicates kept.
C10_Original ==
    pc # "start" =>
        /\ icao_list = (IF typed # <<>> THEN <<Upper(typed)>> ELSE <<>>)
                           \o FromTable(uploaded_file)
        /\ DegradesToTheEnteredCode(Upper(typed))

\* C10 amended: the list is the entered text, upper-cased and stripped of
\* its leading and trailing whitespace, if what is left is not empty,
\* followed by the upper-cased (and not stripped) non-blank cells of the
\* ICAO column in table order, duplicates kept; a file that cannot be read
\* or has no ICAO column gives one error and adds nothing, and the entered
\* code is processed all the same.
C10_ListOfCodes ==
    pc # "start" =>
        /\ IsStripOf(icao_input, Upper(typed))
        /\ icao_list = (IF icao_input # <<>> THEN <<icao_input>> ELSE <<>>)
                           \o FromTable(uploaded_file)
        /\ DegradesToTheEnteredCode(icao_input)

C10_Witness ==
    /\ pc = "done"
    /\ typed = <<" ", "c">>
    /\ uploaded_file = CsvFile(<<JStr(<<" ", "Z">>), JStr(<<"c">>)>>)
    /\ icao_list = << <<"C">>, <<" ", "Z">>, <<"C">> >>
    /\ [j \in 1..Len(df_results) |-> df_results[j].ICAO] = icao_list
    /\ errors = <<>>

====
